---- MODULE Spec2Model ----
\* VecMap core (vecmap/core/mapper.py): seed index construction, candidate
\* generation, vectorized scoring and selection, as a state machine over one
\* call of vecmap(ref, reads, read_len, seed_len, seed_offsets).
\*
\* Strings are sequences of one-symbol strings; Python's 0-based positions are
\* kept, so ref[p] of the source is ref[p + 1] here.
EXTENDS Integers, Sequences, FiniteSets, TLC

\* ---------------------------------------------------------------- bounds
MaxRefLen == 4

MaxReadLen == 3

MaxSeedLen == 2

MaxOffsets == 2

MaxReads == 2

BatchRefLen == 2

BatchOffsets == 1

MaxTargetLen == 2

MaxSpacerLen == 2

MaxTargets == 2
MaxCalls == 2
MaxWorkers == 2
MaxPermuted == 4
Period == 4
MaxRepeats == 3
MaxPeriods == 2
MaxLength == 250
MaxUnitLen == 2
MaxLonger == 1
MaxShift == 1
MaxMismatches == 1
MaxContextLen == 5
UnitLen == 100

Alphabet == {"A", "C"}

\* The filler symbol of the spacers between concatenated targets.
Filler == "N"

\* seed_offsets=[0,20,40,60,80]: five offsets.
NumDefaultOffsets == 5

Ids == {"r1", "r2"}

VARIABLES ref, reads, read_len, seed_len, seed_offsets, index, i,
          candidate_list, mismatches_arr, mappings, pc,
          guides, guide_positions, spacer_len, calls, first,
          owner, local, length, args, results

vars == <<ref, reads, read_len, seed_len, seed_offsets, index, i,
          candidate_list, mismatches_arr, mappings, pc,
          guides, guide_positions, spacer_len, calls, first,
          owner, local, length,
            args, results>>

\* ------------------------------------------------------- Python helpers
Min2(a, b) == IF a <= b THEN a ELSE b

Range(s) == {s[n] : n \in 1..Len(s)}

\* s[a:b] for 0 <= a <= b: the slice stops at the end of s.
Slice(s, a, b) ==
  LET hi == Min2(b, Len(s))
  IN  IF a >= hi THEN <<>> ELSE [n \in 1..(hi - a) |-> s[a + n]]

\* All strings over Alphabet of length 0..n.
Strings(n) == UNION {[1..m -> Alphabet] : m \in 0..n}

SetMin(S) == CHOOSE x \in S : \A y \in S : x <= y

RECURSIVE sorted(_)
\* sorted(candidate_starts): the members of a set of integers, ascending.
sorted(S) ==
  IF S = {} THEN <<>>
  ELSE LET m == SetMin(S) IN <<m>> \o sorted(S \ {m})

\* ------------------------------------------------------ build_seed_index
RECURSIVE IndexScan_Short(_, _, _, _)
\* Mutant: the scan stops one position early, range(len(ref) - seed_len).
IndexScan_Short(r, k, p, idx) ==
  IF p >= Len(r) - k THEN idx
  ELSE LET seed == Slice(r, p, p + k)
           nxt == IF seed \in DOMAIN idx
                    THEN [idx EXCEPT ![seed] = Append(@, p)]
                    ELSE idx @@ (seed :> <<p>>)
       IN  IndexScan_Short(r, k, p + 1, nxt)

RECURSIVE IndexScan(_, _, _, _)
\* The loop of build_seed_index from position p on: index[ref[p:p+k]].append(p).
IndexScan(r, k, p, idx) ==
  IF p > Len(r) - k THEN idx
  ELSE LET seed == Slice(r, p, p + k)
           nxt == IF seed \in DOMAIN idx
                    THEN [idx EXCEPT ![seed] = Append(@, p)]
                    ELSE idx @@ (seed :> <<p>>)
       IN  IndexScan(r, k, p + 1, nxt)

build_seed_index(r, k) == IndexScan(r, k, 0, << >>)

\* Mutant: a seed shorter than the keys finds the positions of a key that
\* starts with it.
IndexGet_Prefix(idx, seed) ==
  IF seed \in DOMAIN idx THEN idx[seed]
  ELSE LET keys == {key \in DOMAIN idx :
                     /\ Len(key) >= Len(seed)
                     /\ SubSeq(key, 1, Len(seed)) = seed}
       IN  IF keys = {} THEN <<>> ELSE idx[CHOOSE key \in keys : TRUE]

\* index.get(seed, []): no entry is created for an absent seed.
IndexGet(idx, seed) == IF seed \in DOMAIN idx THEN idx[seed] ELSE <<>>

\* Mutant: the lookup index[seed], which makes a defaultdict insert an empty
\* list for an absent seed.
IndexAfterGet_Insert(idx, seed) ==
  IF seed \in DOMAIN idx THEN idx ELSE idx @@ (seed :> <<>>)

\* The index after index.get(seed, []): get never inserts.
IndexAfterGet(idx, seed) == idx

\* The index after the seed loop of one read: one lookup per offset.
RECURSIVE IndexAfterSeeds(_, _, _, _, _)
IndexAfterSeeds(idx, read, k, offs, n) ==
  IF n > Len(offs) THEN idx
  ELSE IndexAfterSeeds(IndexAfterGet(idx, Slice(read, offs[n], offs[n] + k)),
                       read, k, offs, n + 1)

\* ---------------------------------------------------- candidate generation
\* Mutant: the test start >= 0 is dropped.
InRange_NoLowerBound(start, L, N) == start + L <= N

\* Mutant: the last admissible start is excluded.
InRange_Strict(start, L, N) == start >= 0 /\ start + L < N

\* The range test of the candidate loop.
InRange(start, L, N) == start >= 0 /\ start + L <= N

\* Mutant: when no seed proposes a start, every start in range is scanned.
candidate_starts_Fallback(idx, read, L, k, offs, N) ==
  LET found == UNION { { IndexGet(idx, Slice(read, offs[n], offs[n] + k))[j] - offs[n] :
                  j \in { j2 \in 1..Len(IndexGet(idx, Slice(read, offs[n], offs[n] + k))) :
                        InRange(IndexGet(idx, Slice(read, offs[n], offs[n] + k))[j2] - offs[n], L, N) } } :
                n \in 1..Len(offs) }
  IN  IF found = {} THEN 0..(N - L) ELSE found

\* candidate_starts after the loops over seed_offsets and hits.
candidate_starts(idx, read, L, k, offs, N) ==
  UNION { { IndexGet(idx, Slice(read, offs[n], offs[n] + k))[j] - offs[n] :
              j \in { j2 \in 1..Len(IndexGet(idx, Slice(read, offs[n], offs[n] + k))) :
                        InRange(IndexGet(idx, Slice(read, offs[n], offs[n] + k))[j2] - offs[n], L, N) } } :
          n \in 1..Len(offs) }

\* ------------------------------------------------------------- scoring
\* numpy broadcasting of substrs (n x L) against read_arr (M,).
Broadcastable(L, M) == M = L \/ M = 1 \/ L = 1

BroadcastWidth(L, M) == IF L = 1 THEN M ELSE L

\* ref_arr[idx] of numpy: a negative idx counts from the end.
RefAt(r, idx) == r[(IF idx < 0 THEN idx + Len(r) ELSE idx) + 1]

\* ref_arr[starts[:, np.newaxis] + np.arange(read_len)] raises IndexError
\* unless every gathered position lies in -len(ref) .. len(ref) - 1.
GatherOk(r, starts, L) ==
  \A n \in 1..Len(starts) : \A j \in 0..(L - 1) :
    /\ starts[n] + j >= -Len(r)
    /\ starts[n] + j < Len(r)

\* Mutant: the row counts the positions that agree.
RowMismatches_Equal(r, read, start, L) ==
  LET M == Len(read)
  IN  Cardinality({ j \in 0..(BroadcastWidth(L, M) - 1) :
        RefAt(r, start + (IF L = 1 THEN 0 ELSE j)) = read[(IF M = 1 THEN 0 ELSE j) + 1] })

\* One row of (substrs != read_arr).sum(axis=1).
RowMismatches(r, read, start, L) ==
  LET M == Len(read)
  IN  Cardinality({ j \in 0..(BroadcastWidth(L, M) - 1) :
        RefAt(r, start + (IF L = 1 THEN 0 ELSE j)) # read[(IF M = 1 THEN 0 ELSE j) + 1] })

score(r, read, starts, L) ==
  [n \in 1..Len(starts) |-> RowMismatches(r, read, starts[n], L)]

\* ------------------------------------------------------------ selection
\* mismatches_arr.min()
ArrMin(arr) == SetMin(Range(arr))

\* Mutant: the last index holding the minimum.
ArgMin_Last(arr) ==
  (CHOOSE n \in 1..Len(arr) :
     /\ arr[n] = ArrMin(arr)
     /\ \A n2 \in 1..Len(arr) : arr[n2] = ArrMin(arr) => n2 <= n) - 1

\* mismatches_arr.argmin(): the first index (0-based) holding the minimum.
ArgMin(arr) == SetMin({n \in 1..Len(arr) : arr[n] = ArrMin(arr)}) - 1

\* ------------------------------------------------------------ the machine
ReadSeq(rd) == rd[1]

ReadId(rd) == rd[2]

\* Offset lists of at most n offsets: ascending, without repeats (the candidate
\* set does not depend on their order or multiplicity).
OffsetLists(n) ==
  {sorted(S) : S \in {T \in SUBSET (0..(MaxReadLen - 1)) : Cardinality(T) <= n}}

InitLocals ==
  /\ index = << >>
  /\ i = 0
  /\ candidate_list = <<>>
  /\ mismatches_arr = <<>>
  /\ mappings = <<>>
  /\ pc = "start"

\* No call has returned yet.
NoOutcome == [pc |-> "none", mappings |-> <<>>]

FirstCall ==
  /\ calls = 0
  /\ first = NoOutcome

\* The reference is handed to the call as it is: it has the length it has.
GivenReference == length = Len(ref)

\* vecmap is called directly, not through a class of vecmap.applications.
NoWrapper ==
  /\ args = <<>>
  /\ results = <<>>

\* The batch is mapped by the calling thread alone.
NoWorkers ==
  /\ owner = <<>>
  /\ local = <<>>

\* A call whose reference was not built from a target library.
NoLibrary ==
  /\ guides = <<>>
  /\ guide_positions = << >>
  /\ spacer_len = 0

\* A call on a batch of up to MaxReads reads.
Init ==
  /\ NoLibrary
  /\ ref \in Strings(BatchRefLen)
  /\ read_len \in 1..MaxReadLen
  /\ seed_len \in 1..MaxSeedLen
  /\ seed_offsets \in OffsetLists(BatchOffsets)
  /\ reads \in UNION {[1..m -> Strings(MaxReadLen) \X Ids] : m \in 0..MaxReads}
  /\ InitLocals
  /\ FirstCall
  /\ NoWorkers
  /\ GivenReference
  /\ NoWrapper

\* A call on a single read, over longer references.
InitRead ==
  /\ NoLibrary
  /\ ref \in Strings(MaxRefLen)
  /\ read_len \in 1..MaxReadLen
  /\ seed_len \in 1..MaxSeedLen
  /\ seed_offsets \in OffsetLists(MaxOffsets)
  /\ reads \in [1..1 -> Strings(MaxReadLen) \X {"r1"}]
  /\ InitLocals
  /\ FirstCall
  /\ NoWorkers
  /\ GivenReference
  /\ NoWrapper

CurRead == reads[i + 1]

Inputs == <<ref, reads, read_len, seed_len, seed_offsets,
            guides, guide_positions, spacer_len, calls, first,
            owner, local, length,
            args, results>>

\* index = build_seed_index(ref, seed_len)
BuildIndex ==
  /\ pc = "start"
  /\ index' = build_seed_index(ref, seed_len)
  /\ pc' = "loop"
  /\ UNCHANGED <<Inputs, i, candidate_list, mismatches_arr, mappings>>

\* The orders in which iterating a set may yield its elements: the language
\* fixes none.
RECURSIVE AllOrders(_)
AllOrders(S) ==
  IF S = {} THEN {<<>>}
  ELSE UNION {{<<x>> \o o : o \in AllOrders(S \ {x})} : x \in S}

Reversed(s) == [n \in 1..Len(s) |-> s[Len(s) + 1 - n]]

\* Every order for a set of at most MaxPermuted elements; ascending and
\* descending for a larger one.
IterationOrders(S) ==
  IF Cardinality(S) <= MaxPermuted THEN AllOrders(S)
  ELSE {sorted(S), Reversed(sorted(S))}

\* Mutant: list(candidate_starts), the elements as the set yields them.
SortedFrom_AsIterated(order) == order

\* sorted(candidate_starts) on a set that yields its elements in this order.
SortedFrom(order) == sorted(Range(order))

\* Mutant: candidate_starts keeps the starts of the read before.
NewCandidateSet_Keep(prev) == Range(prev)

\* candidate_starts = set(): every read starts from the empty set, whatever
\* the read before left.
NewCandidateSet(prev) == {}

\* The seed loops and candidate_list = sorted(candidate_starts) for the next read.
GenerateCandidates ==
  /\ pc = "loop"
  /\ i < Len(reads)
  /\ \E order \in IterationOrders(
         NewCandidateSet(candidate_list) \cup
         candidate_starts(index, ReadSeq(CurRead), read_len,
                          seed_len, seed_offsets, Len(ref))) :
       candidate_list' = SortedFrom(order)
  /\ index' = IndexAfterSeeds(index, ReadSeq(CurRead), seed_len, seed_offsets, 1)
  /\ pc' = "candidates"
  /\ UNCHANGED <<Inputs, i, mismatches_arr, mappings>>

\* Mutant: a read without candidates is reported with 0 mismatches.
Unmapped_ZeroMismatches ==
  /\ pc = "candidates"
  /\ Len(candidate_list) = 0
  /\ mappings' = Append(mappings, <<-1, 0, ReadId(CurRead)>>)
  /\ i' = i + 1
  /\ pc' = "loop"
  /\ UNCHANGED <<Inputs, index, candidate_list, mismatches_arr>>

\* num_candidates == 0: the sentinel pair is appended.
Unmapped ==
  /\ pc = "candidates"
  /\ Len(candidate_list) = 0
  /\ mappings' = Append(mappings, <<-1, -1, ReadId(CurRead)>>)
  /\ i' = i + 1
  /\ pc' = "loop"
  /\ UNCHANGED <<Inputs, index, candidate_list, mismatches_arr>>

\* mismatches_arr = (substrs != read_arr).sum(axis=1)
Score ==
  /\ pc = "candidates"
  /\ Len(candidate_list) > 0
  /\ GatherOk(ref, candidate_list, read_len)
  /\ Broadcastable(read_len, Len(ReadSeq(CurRead)))
  /\ mismatches_arr' = score(ref, ReadSeq(CurRead), candidate_list, read_len)
  /\ pc' = "scored"
  /\ UNCHANGED <<Inputs, index, i, candidate_list, mappings>>

\* The gather or the comparison of shapes that do not broadcast raises; the
\* exception leaves vecmap and nothing is returned.
ScoreRaises ==
  /\ pc = "candidates"
  /\ Len(candidate_list) > 0
  /\ ~(GatherOk(ref, candidate_list, read_len)
        /\ Broadcastable(read_len, Len(ReadSeq(CurRead))))
  /\ pc' = "raised"
  /\ UNCHANGED <<Inputs, index, i, candidate_list, mismatches_arr, mappings>>

\* min(), argmin(), best_pos = starts[best_idx], mappings.append(...)
Select ==
  /\ pc = "scored"
  /\ mappings' = Append(mappings, <<candidate_list[ArgMin(mismatches_arr) + 1],
                                    ArrMin(mismatches_arr), ReadId(CurRead)>>)
  /\ i' = i + 1
  /\ pc' = "loop"
  /\ UNCHANGED <<Inputs, index, candidate_list, mismatches_arr>>

\* return mappings
Return ==
  /\ pc = "loop"
  /\ i = Len(reads)
  /\ pc' = "returned"
  /\ UNCHANGED <<Inputs, index, i, candidate_list, mismatches_arr, mappings>>

Next ==
  \/ BuildIndex
  \/ GenerateCandidates
  \/ Unmapped
  \/ Score
  \/ ScoreRaises
  \/ Select
  \/ Return

Spec == Init /\ [][Next]_vars

SpecRead == InitRead /\ [][Next]_vars

\* The caller calls vecmap again with the same arguments once the call is
\* over: the locals of the finished call are gone, the arguments (and the
\* default offsets list, which is one object for all calls) are what the
\* finished call left of them.
CallAgain ==
  /\ pc \in {"returned", "raised"}
  /\ calls < MaxCalls - 1
  /\ calls' = calls + 1
  /\ first' = IF calls = 0 THEN [pc |-> pc, mappings |-> mappings] ELSE first
  /\ index' = << >>
  /\ i' = 0
  /\ candidate_list' = <<>>
  /\ mismatches_arr' = <<>>
  /\ mappings' = <<>>
  /\ pc' = "start"
  /\ UNCHANGED <<ref, reads, read_len, seed_len, seed_offsets,
                 guides, guide_positions, spacer_len, owner, local, length,
            args, results>>

NextCalls ==
  \/ Next
  \/ CallAgain

SpecCalls == Init /\ [][NextCalls]_vars

\* ------------------------------------------------- workers over one index
\* The per-read steps of vecmap run by workers: the batch is split into
\* contiguous chunks, worker w maps the reads it owns in order with locals
\* of its own (local[w]); ref and index are the one shared copy, read
\* without locks once the calling thread has built the index.
Workers == 1..MaxWorkers

RECURSIVE ChunkFrom(_, _)
ChunkFrom(w, j) ==
  IF j > Len(reads) THEN <<>>
  ELSE (IF owner[j] = w THEN <<reads[j]>> ELSE <<>>) \o ChunkFrom(w, j + 1)

Chunk(w) == ChunkFrom(w, 1)

WorkerLocals ==
  [i |-> 0, candidate_list |-> <<>>, mismatches_arr |-> <<>>,
   mappings |-> <<>>, pc |-> "loop"]

InitWorkers ==
  /\ NoLibrary
  /\ FirstCall
  /\ InitLocals
  /\ ref \in Strings(BatchRefLen)
  /\ read_len \in 1..MaxReadLen
  /\ seed_len \in 1..MaxSeedLen
  /\ seed_offsets \in OffsetLists(BatchOffsets)
  /\ \E n \in 0..MaxReads :
       /\ \E seqs \in [1..n -> Strings(MaxReadLen)] :
            reads = [j \in 1..n |-> <<seqs[j], j>>]
       /\ owner \in {o \in [1..n -> Workers] :
                       \A a, b \in 1..n : a <= b => o[a] <= o[b]}
  /\ local = [w \in Workers |-> WorkerLocals]
  /\ GivenReference
  /\ NoWrapper

WRead(w) == Chunk(w)[local[w].i + 1]

WorkerFrame == <<ref, reads, read_len, seed_len, seed_offsets,
                 guides, guide_positions, spacer_len, calls, first, owner, length, args, results,
                 i, candidate_list, mismatches_arr, mappings, pc>>

\* Worker w: the seed loops and candidate_list for its next read.
WGenerateCandidates(w) ==
  /\ pc = "loop"
  /\ local[w].pc = "loop"
  /\ local[w].i < Len(Chunk(w))
  /\ \E order \in IterationOrders(
         NewCandidateSet(local[w].candidate_list) \cup
         candidate_starts(index, ReadSeq(WRead(w)), read_len,
                          seed_len, seed_offsets, Len(ref))) :
       local' = [local EXCEPT ![w].candidate_list = SortedFrom(order),
                              ![w].pc = "candidates"]
  /\ index' = IndexAfterSeeds(index, ReadSeq(WRead(w)), seed_len, seed_offsets, 1)
  /\ UNCHANGED WorkerFrame

\* Worker w: num_candidates == 0.
WUnmapped(w) ==
  /\ local[w].pc = "candidates"
  /\ Len(local[w].candidate_list) = 0
  /\ local' = [local EXCEPT
       ![w].mappings = Append(@, <<-1, -1, ReadId(WRead(w))>>),
       ![w].i = @ + 1,
       ![w].pc = "loop"]
  /\ UNCHANGED <<WorkerFrame, index>>

\* Worker w: the vectorized comparison.
WScore(w) ==
  /\ local[w].pc = "candidates"
  /\ Len(local[w].candidate_list) > 0
  /\ GatherOk(ref, local[w].candidate_list, read_len)
  /\ Broadcastable(read_len, Len(ReadSeq(WRead(w))))
  /\ local' = [local EXCEPT
       ![w].mismatches_arr = score(ref, ReadSeq(WRead(w)),
                                   local[w].candidate_list, read_len),
       ![w].pc = "scored"]
  /\ UNCHANGED <<WorkerFrame, index>>

\* Worker w: the comparison raises; the worker is over.
WScoreRaises(w) ==
  /\ local[w].pc = "candidates"
  /\ Len(local[w].candidate_list) > 0
  /\ ~(/\ GatherOk(ref, local[w].candidate_list, read_len)
        /\ Broadcastable(read_len, Len(ReadSeq(WRead(w)))))
  /\ local' = [local EXCEPT ![w].pc = "raised"]
  /\ UNCHANGED <<WorkerFrame, index>>

\* Worker w: min, argmin and the appended triple.
WSelect(w) ==
  /\ local[w].pc = "scored"
  /\ local' = [local EXCEPT
       ![w].mappings =
          Append(@, <<local[w].candidate_list[ArgMin(local[w].mismatches_arr) + 1],
                      ArrMin(local[w].mismatches_arr), ReadId(WRead(w))>>),
       ![w].i = @ + 1,
       ![w].pc = "loop"]
  /\ UNCHANGED <<WorkerFrame, index>>

\* Worker w has mapped its chunk.
WReturn(w) ==
  /\ pc = "loop"
  /\ local[w].pc = "loop"
  /\ local[w].i = Len(Chunk(w))
  /\ local' = [local EXCEPT ![w].pc = "returned"]
  /\ UNCHANGED <<WorkerFrame, index>>

NextWorkers ==
  \/ BuildIndex
  \/ \E w \in Workers :
       \/ WGenerateCandidates(w)
       \/ WUnmapped(w)
       \/ WScore(w)
       \/ WScoreRaises(w)
       \/ WSelect(w)
       \/ WReturn(w)

SpecWorkers == InitWorkers /\ [][NextWorkers]_vars

\* The outcome of vecmap on the one read rd, by the calling thread alone.
MapAlone(rd) ==
  LET idx    == build_seed_index(ref, seed_len)
      starts == sorted(NewCandidateSet(<<>>) \cup
                       candidate_starts(idx, ReadSeq(rd), read_len, seed_len,
                                        seed_offsets, Len(ref)))
  IN  IF Len(starts) = 0 THEN <<-1, -1, ReadId(rd)>>
      ELSE IF ~(/\ GatherOk(ref, starts, read_len)
                /\ Broadcastable(read_len, Len(ReadSeq(rd))))
        THEN "raised"
      ELSE LET arr == score(ref, ReadSeq(rd), starts, read_len)
           IN  <<starts[ArgMin(arr) + 1], ArrMin(arr), ReadId(rd)>>

\* ------------------------------------------------------ mapper_numba.py
RECURSIVE IndexScanNb(_, _, _, _)
\* The loop of _build_seed_index_nb from position p on.
IndexScanNb(r, k, p, idx) ==
  IF p >= Len(r) - k + 1 THEN idx
  ELSE LET seed == Slice(r, p, p + k)
       IN  IF seed \in DOMAIN idx
             THEN IndexScanNb(r, k, p + 1, [idx EXCEPT ![seed] = Append(@, p)])
             ELSE IndexScanNb(r, k, p + 1, idx @@ (seed :> <<p>>))

build_seed_index_nb(r, k) == IndexScanNb(r, k, 0, << >>)

RECURSIVE CandScanNb_Strict(_, _, _, _, _, _, _, _, _)
\* Mutant: the range test reads 0 < start.
CandScanNb_Strict(idx, read, L, offs, k, N, n, j, starts) ==
  IF n > Len(offs) THEN starts
  ELSE LET offset == offs[n]
           seed   == Slice(read, offset, offset + k)
       IN  IF seed \notin DOMAIN idx \/ j > Len(idx[seed])
             THEN CandScanNb_Strict(idx, read, L, offs, k, N, n + 1, 1, starts)
             ELSE LET start == idx[seed][j] - offset
                  IN  CandScanNb_Strict(idx, read, L, offs, k, N, n, j + 1,
                        IF 0 < start /\ start + L <= N
                          THEN Append(starts, start) ELSE starts)

RECURSIVE CandScanNb(_, _, _, _, _, _, _, _, _)
\* The loops of _get_candidate_starts_nb from the n-th offset and its j-th hit
\* on: starts.append(start) for every hit whose start is in range.
CandScanNb(idx, read, L, offs, k, N, n, j, starts) ==
  IF n > Len(offs) THEN starts
  ELSE LET offset == offs[n]
           seed   == Slice(read, offset, offset + k)
       IN  IF seed \notin DOMAIN idx \/ j > Len(idx[seed])
             THEN CandScanNb(idx, read, L, offs, k, N, n + 1, 1, starts)
             ELSE LET start == idx[seed][j] - offset
                  IN  CandScanNb(idx, read, L, offs, k, N, n, j + 1,
                        IF 0 <= start /\ start + L <= N
                          THEN Append(starts, start) ELSE starts)

\* The list of starts, in discovery order and with repeats.
get_candidate_starts_nb(idx, read, L, offs, k, N) ==
  CandScanNb(idx, read, L, offs, k, N, 1, 1, <<>>)

\* One iteration of the loop of vecmap_numba: the triple appended for the
\* read, or "raised" when the gather or the comparison raises.
NumbaRead(r, idx, rd, L, k, offs) ==
  LET cand == sorted(Range(get_candidate_starts_nb(idx, ReadSeq(rd), L, offs, k, Len(r))))
  IN  IF cand = <<>> THEN <<-1, -1, ReadId(rd)>>
      ELSE IF ~(GatherOk(r, cand, L) /\ Broadcastable(L, Len(ReadSeq(rd))))
             THEN "raised"
             ELSE LET arr      == score(r, ReadSeq(rd), cand, L)
                      best_idx == ArgMin(arr)
                  IN  <<cand[best_idx + 1], arr[best_idx + 1], ReadId(rd)>>

RECURSIVE NumbaLoop(_, _, _, _, _, _, _, _)
\* The loop of vecmap_numba over the reads from the n-th on.
NumbaLoop(r, idx, rds, L, k, offs, n, out) ==
  IF n > Len(rds) THEN [pc |-> "returned", mappings |-> out]
  ELSE LET res == NumbaRead(r, idx, rds[n], L, k, offs)
       IN  IF res = "raised" THEN [pc |-> "raised", mappings |-> out]
           ELSE NumbaLoop(r, idx, rds, L, k, offs, n + 1, Append(out, res))

\* vecmap_numba(ref, reads, read_len, seed_len, seed_offsets): how the call
\* ends and the mappings it built.
vecmap_numba(r, rds, L, k, offs) ==
  NumbaLoop(r, build_seed_index_nb(r, k), rds, L, k, offs, 1, <<>>)

\* ------------------------------------------------ vecmap as a function
\* The dict build_seed_index returns, written without its loop: the keys are
\* the seeds ref[p : p + k] for p in range(len(ref) - k + 1), and the list of a
\* seed holds, ascending, the positions where it occurs.
SeedIndex(r, k) ==
  LET seed_at == [p \in 0..(Len(r) - k) |-> Slice(r, p, p + k)]
  IN  [seed \in {seed_at[p] : p \in DOMAIN seed_at} |->
         sorted({p \in DOMAIN seed_at : seed_at[p] = seed})]

\* What the body of the read loop appends for the read rd, or "raised".
MapRead(r, idx, rd, L, k, offs) ==
  LET starts == sorted(NewCandidateSet(<<>>) \cup
                       candidate_starts(idx, ReadSeq(rd), L, k, offs, Len(r)))
  IN  IF Len(starts) = 0 THEN <<-1, -1, ReadId(rd)>>
      ELSE IF ~(/\ GatherOk(r, starts, L)
                /\ Broadcastable(L, Len(ReadSeq(rd))))
        THEN "raised"
      ELSE LET arr == score(r, ReadSeq(rd), starts, L)
           IN  <<starts[ArgMin(arr) + 1], ArrMin(arr), ReadId(rd)>>

RECURSIVE MapLoop(_, _, _, _, _, _, _, _)
MapLoop(r, idx, rds, L, k, offs, n, out) ==
  IF n > Len(rds) THEN [pc |-> "returned", mappings |-> out]
  ELSE LET res == MapRead(r, idx, rds[n], L, k, offs)
       IN  IF res = "raised" THEN [pc |-> "raised", mappings |-> out]
           ELSE MapLoop(r, idx, rds, L, k, offs, n + 1, Append(out, res))

\* vecmap(ref, reads, read_len, seed_len, seed_offsets) as its callers see
\* it: how the call ends and, when it returns, the list of triples.
vecmap(r, rds, L, k, offs) ==
  MapLoop(r, SeedIndex(r, k), rds, L, k, offs, 1, <<>>)

\* ------------------------------------------- synthetic target references
\* "N" * n
Spacer(n) == [m \in 1..n |-> Filler]

RECURSIVE GuideRef_NoSpacer(_, _)
\* Mutant: the targets are concatenated without the spacer.
GuideRef_NoSpacer(gs, S) ==
  IF gs = <<>> THEN <<>>
  ELSE Head(gs) \o GuideRef_NoSpacer(Tail(gs), S)

RECURSIVE GuideRef(_, _)
\* guide_ref += guide_seq + "N" * 10, over the targets in order.
GuideRef(gs, S) ==
  IF gs = <<>> THEN <<>>
  ELSE Head(gs) \o Spacer(S) \o GuideRef(Tail(gs), S)

\* guide_positions[pos] = guide_name; pos += target length + spacer length.
\* The name of the n-th target is its 0-based index.
GuidePositions(gs, T, S) ==
  [pos \in {(n - 1) * (T + S) : n \in 1..Len(gs)} |-> pos \div (T + S)]

\* The default seed_offsets=[0,20,40,60,80] for the default seed_len=20:
\* the first five multiples of the seed length.
DefaultOffsets(k) == [n \in 1..NumDefaultOffsets |-> (n - 1) * k]

\* guide_pos = (pos // 30) * 30; the target registered there, or -1 if none.
DetectedGuide(pos) ==
  LET stride    == read_len + spacer_len
      guide_pos == (pos \div stride) * stride
  IN  IF guide_pos \in DOMAIN guide_positions THEN guide_positions[guide_pos] ELSE -1

\* Reads of at most n symbols over the nucleotides and the filler.
ReadStrings(n) == UNION {[1..m -> Alphabet \cup {Filler}] : m \in 0..n}

\* A call as in benchmark_guide_detection_simple: the reference is built from
\* targets of one length T joined by spacers, and vecmap runs with read_len = T
\* and its defaults, the default seed length being the target length.
InitTargets ==
  /\ \E T \in 1..MaxTargetLen : \E n \in 1..MaxTargets :
       /\ guides \in [1..n -> [1..T -> Alphabet]]
       /\ read_len = T
       /\ seed_len = T
       /\ seed_offsets = DefaultOffsets(T)
       /\ reads \in [1..1 -> ReadStrings(T + 1) \X {"r1"}]
  /\ spacer_len \in 1..MaxSpacerLen
  /\ ref = GuideRef(guides, spacer_len)
  /\ guide_positions = GuidePositions(guides, read_len, spacer_len)
  /\ InitLocals
  /\ FirstCall
  /\ NoWorkers
  /\ GivenReference
  /\ NoWrapper

SpecTargets == InitTargets /\ [][Next]_vars

\* ------------------------------------------------------ generated inputs
\* unit * times
RECURSIVE Repeat(_, _)
Repeat(unit, times) ==
  IF times <= 0 THEN <<>> ELSE unit \o Repeat(unit, times - 1)

\* The UnitLen symbols that random.choice('ACGT') yields after random.seed(0).
Unit ==
  <<"T", "T", "A", "G", "T", "T", "G", "T", "G", "C", "C", "G", "C", "A", "G", "C", "G", "A", "A", "G",
     "T", "A", "G", "T", "G", "C", "T", "T", "G", "A", "A", "A", "T", "A", "T", "G", "C", "G", "A", "C",
     "C", "C", "C", "T", "A", "A", "G", "T", "A", "G", "G", "A", "G", "C", "G", "T", "A", "T", "G", "C",
     "G", "C", "C", "C", "A", "G", "T", "A", "A", "C", "C", "A", "A", "T", "G", "C", "C", "T", "G", "T",
     "T", "G", "A", "G", "A", "T", "G", "C", "C", "A", "G", "A", "C", "G", "C", "G", "T", "A", "A", "C">>

\* generate_reference(length): times = length // 100; return unit * times
generate_reference(n) == Repeat(Unit, n \div UnitLen)

\* A caller asks for a reference of some length.
InitReference ==
  /\ length \in 0..MaxLength
  /\ ref = <<>>
  /\ reads = <<>>
  /\ read_len = UnitLen
  /\ seed_len = 20
  /\ seed_offsets = <<0, 20, 40, 60, 80>>
  /\ index = << >>
  /\ i = 0
  /\ candidate_list = <<>>
  /\ mismatches_arr = <<>>
  /\ mappings = <<>>
  /\ pc = "generate"
  /\ NoLibrary
  /\ FirstCall
  /\ NoWorkers
  /\ NoWrapper

\* ref = generate_reference(length)
GenerateReference ==
  /\ pc = "generate"
  /\ ref' = generate_reference(length)
  /\ pc' = "generated"
  /\ UNCHANGED <<reads, read_len, seed_len, seed_offsets, index, i,
                 candidate_list, mismatches_arr, mappings,
                 guides, guide_positions, spacer_len, calls, first,
                 owner, local, length,
            args, results>>

NextReference == GenerateReference

SpecReference == InitReference /\ [][NextReference]_vars

\* generate_reads(ref, num_reads, read_len) for one read: a window of the
\* reference at a position pos, each symbol of which may have been replaced
\* by another one (here at most one symbol is), with pos as its label.
generate_reads(r, L) ==
  UNION {LET w == Slice(r, pos, pos + L)
         IN  {<<w, pos>>} \cup
             {<<[w EXCEPT ![n] = b], pos>> :
                <<n, b>> \in {x \in (1..L) \X Alphabet : x[2] # w[x[1]]}}
         : pos \in 0..(Len(r) - L)}

\* A call on a reference that is a unit of Period symbols repeated, with a
\* read length that is a multiple of the period, a seed no longer than the
\* read, the offsets of the defaults and one generated read.
InitRepeat ==
  /\ \E unit \in [1..Period -> Alphabet] : \E times \in 1..MaxRepeats :
       ref = Repeat(unit, times)
  /\ \E m \in 1..MaxPeriods :
       /\ m * Period <= Len(ref)
       /\ read_len = m * Period
  /\ seed_len \in 1..read_len
  /\ seed_offsets = DefaultOffsets(seed_len)
  /\ \E rd \in generate_reads(ref, read_len) : reads = <<rd>>
  /\ NoLibrary
  /\ InitLocals
  /\ FirstCall
  /\ NoWorkers
  /\ GivenReference
  /\ NoWrapper

\* The steps of vecmap on generated reads, which all have read_len symbols.
NextGenerated ==
  \/ BuildIndex
  \/ GenerateCandidates
  \/ Unmapped
  \/ Score
  \/ Select
  \/ Return

SpecRepeat == InitRepeat /\ [][NextGenerated]_vars

\* --------------------------------------------------- vecmap.applications
\* The classes of vecmap/applications build a reference from a library of
\* targets of one length joined by spacers of "N", call vecmap with its
\* default seed_len and seed_offsets, and attribute a reported position to the
\* target registered at the start of its block.  A target is named by its
\* 0-based index in the library.

\* seed_len=20 of vecmap's signature.
DefaultSeedLen == 20

\* barcode_length: int = 16
DefaultBarcodeLength == 16

\* umi_length: int = 10
DefaultUmiLength == 10

\* "N" * 10 of CRISPRGuideDetector.__init__ and detect_guides_with_context.
GuideSpacer == 10

\* "N" * 10 of BarcodeProcessor._build_barcode_reference.
BarcodeSpacer == 10

\* "N" * 20 of HashtagDemultiplexer._build_hashtag_reference.
HashtagSpacer == 20

\* "N" * 15 of FeatureBarcodeDetector._build_feature_reference.
FeatureSpacer == 15

\* abs(pos - guide_pos) < 5
ContextTolerance == 5

\* seq[:20] of process_read_pairs without a guide detector.
FixedGuideLen == 20

\* unit repeated and cut to n symbols.
Cycle(unit, n) == [m \in 1..n |-> unit[((m - 1) % Len(unit)) + 1]]

\* The target sequences of length T the libraries are drawn from.
TargetPool(T) == {Cycle(unit, T) : unit \in Strings(MaxUnitLen) \ {<<>>}}

\* The target lengths: the default barcode length, and the lengths around the
\* default seed length.
TargetLengths ==
  {DefaultBarcodeLength} \cup ((DefaultSeedLen - 1)..(DefaultSeedLen + MaxLonger))

\* A dict of 1..MaxTargets named targets of length T, in insertion order; two
\* names may hold the same sequence.
Libraries(T) == UNION {[1..n -> TargetPool(T)] : n \in 1..MaxTargets}

\* complement.get(base, 'N')
Complement(base) ==
  CASE base = "A" -> "T"
    [] base = "T" -> "A"
    [] base = "C" -> "G"
    [] base = "G" -> "C"
    [] OTHER -> "N"

\* ''.join(complement.get(base, 'N') for base in seq[::-1])
reverse_complement(seq) ==
  [m \in 1..Len(seq) |-> Complement(seq[Len(seq) - m + 1])]

\* vecmap(reference, reads, length): seed_len and seed_offsets are defaulted.
vecmap_default(r, rds, L) ==
  vecmap(r, rds, L, DefaultSeedLen, DefaultOffsets(DefaultSeedLen))

\* Mutant: the block of a position before the first block is the first block.
BlockStart_Clamped(pos, L, S) ==
  IF pos < 0 THEN 0 ELSE (pos \div (L + S)) * (L + S)

\* (pos // (length + spacer)) * (length + spacer), // rounding down.
BlockStart(pos, L, S) == (pos \div (L + S)) * (L + S)

\* results[read_id] of a defaultdict(list): the entry exists afterwards.
Touch(res, id) == IF id \in DOMAIN res THEN res ELSE res @@ (id :> <<>>)

\* results[read_id].append(name)
AppendAt(res, id, name) == [Touch(res, id) EXCEPT ![id] = Append(@, name)]

\* A guide name as detect_guides lists it: the name registered for the guide
\* and the suffix added to it.
Plain(name) == <<name, "">>

\* guide_name + "_RC"
RCName(name) == <<name, "_RC">>

RECURSIVE ForwardGuides(_, _, _, _, _)
\* The loop of detect_guides over the forward alignments, from the n-th on.
ForwardGuides(aligned, positions, L, n, res) ==
  IF n > Len(aligned) THEN res
  ELSE LET pos            == aligned[n][1]
           mismatch_count == aligned[n][2]
           read_id        == aligned[n][3]
           guide_position == BlockStart(pos, L, GuideSpacer)
       IN  ForwardGuides(aligned, positions, L, n + 1,
             IF mismatch_count = 0 /\ guide_position \in DOMAIN positions
               THEN AppendAt(res, read_id, Plain(positions[guide_position]))
               ELSE res)

RECURSIVE ReverseGuides(_, _, _, _, _)
\* The loop of detect_guides over the reverse-complement alignments.
ReverseGuides(aligned, positions, L, n, res) ==
  IF n > Len(aligned) THEN res
  ELSE LET pos            == aligned[n][1]
           mismatch_count == aligned[n][2]
           read_id        == aligned[n][3]
           guide_position == BlockStart(pos, L, GuideSpacer)
       IN  ReverseGuides(aligned, positions, L, n + 1,
             IF mismatch_count = 0 /\ guide_position \in DOMAIN positions
               THEN IF Plain(positions[guide_position]) \notin Range(Touch(res, read_id)[read_id])
                      THEN AppendAt(res, read_id, RCName(positions[guide_position]))
                      ELSE Touch(res, read_id)
               ELSE res)

\* How a method call ends: it returns a value, or an exception of vecmap
\* passes through it.
Returned(value) == [pc |-> "returned", value |-> value]

Raised == [pc |-> "raised", value |-> << >>]

\* CRISPRGuideDetector.detect_guides(reads, allow_reverse_complement).
detect_guides(r, positions, L, rds, allow_reverse_complement) ==
  LET alignments == vecmap_default(r, rds, L)
      forward    == ForwardGuides(alignments.mappings, positions, L, 1, << >>)
      rc_reads   == [n \in 1..Len(rds) |->
                       <<reverse_complement(ReadSeq(rds[n])), ReadId(rds[n])>>]
      rc_alignments == vecmap_default(r, rc_reads, L)
  IN  IF alignments.pc = "raised" THEN Raised
      ELSE IF ~allow_reverse_complement THEN Returned(forward)
      ELSE IF rc_alignments.pc = "raised" THEN Raised
      ELSE Returned(ReverseGuides(rc_alignments.mappings, positions, L, 1, forward))

RECURSIVE ContextRef(_, _, _)
\* context_reference += upstream_context + guide_seq + downstream_context
\*                      + "N" * 10, over the library in order.
ContextRef(gs, up, down) ==
  IF gs = <<>> THEN <<>>
  ELSE up \o Head(gs) \o down \o Spacer(GuideSpacer) \o ContextRef(Tail(gs), up, down)

\* The key of context_positions for the n-th guide:
\* position + len(upstream_context), position growing by len(full_seq) + 10.
ContextPosition(n, L, up, down) ==
  (n - 1) * (Len(up) + L + Len(down) + GuideSpacer) + Len(up)

\* abs(pos - guide_pos)
Abs(x) == IF x < 0 THEN -x ELSE x

\* abs(pos - guide_pos) < 5
NearGuide(pos, n, L, up, down) ==
  Abs(pos - ContextPosition(n, L, up, down)) < ContextTolerance

RECURSIVE ContextGuides(_, _, _, _, _, _, _)
\* The loop of detect_guides_with_context over the alignments: the first
\* guide, in library order, whose registered position is near is appended.
ContextGuides(aligned, num, L, up, down, n, res) ==
  IF n > Len(aligned) THEN res
  ELSE LET pos            == aligned[n][1]
           mismatch_count == aligned[n][2]
           read_id        == aligned[n][3]
           near == {g \in 1..num : NearGuide(pos, g, L, up, down)}
       IN  ContextGuides(aligned, num, L, up, down, n + 1,
             IF mismatch_count = 0 /\ near # {}
               THEN AppendAt(res, read_id, Plain(SetMin(near) - 1))
               ELSE res)

\* CRISPRGuideDetector.detect_guides_with_context(reads, upstream_context,
\* downstream_context).
detect_guides_with_context(gs, L, rds, up, down) ==
  LET search_len == Len(up) + L + Len(down)
      alignments == vecmap_default(ContextRef(gs, up, down), rds, search_len)
  IN  IF alignments.pc = "raised" THEN Raised
      ELSE Returned(ContextGuides(alignments.mappings, Len(gs), L, up, down, 1, << >>))

\* The order of the symbols in Python's comparison of strings.
Rank(c) ==
  CASE c = "A" -> 1
    [] c = "C" -> 2
    [] c = "G" -> 3
    [] c = "N" -> 4
    [] c = "T" -> 5

\* a < b for two strings of one length.
LexLess(a, b) ==
  \E n \in 1..Len(a) :
    /\ Rank(a[n]) < Rank(b[n])
    /\ \A m \in 1..(n - 1) : a[m] = b[m]

RECURSIVE sorted_barcodes(_)
\* sorted(self.barcode_whitelist)
sorted_barcodes(W) ==
  IF W = {} THEN <<>>
  ELSE LET least == CHOOSE a \in W : \A b \in W \ {a} : LexLess(a, b)
       IN  <<least>> \o sorted_barcodes(W \ {least})

\* The whitelists drawn: sets of at most MaxTargets barcodes of length T, the
\* empty one included, as the list _build_barcode_reference iterates.
Whitelists(T) ==
  {sorted_barcodes(W) : W \in {V \in SUBSET TargetPool(T) : Cardinality(V) <= MaxTargets}}

RECURSIVE CorrectedFrom(_, _, _, _, _, _, _)
\* The loop of correct_barcodes over the alignments, from the n-th on.
CorrectedFrom(aligned, gs, positions, L, max_hamming_dist, n, corrected) ==
  IF n > Len(aligned) THEN corrected
  ELSE LET pos         == aligned[n][1]
           mismatches  == aligned[n][2]
           read_id     == aligned[n][3]
           barcode_pos == BlockStart(pos, L, BarcodeSpacer)
           barcode     == gs[positions[barcode_pos] + 1]
       IN  CorrectedFrom(aligned, gs, positions, L, max_hamming_dist, n + 1,
             IF mismatches <= max_hamming_dist /\ barcode_pos \in DOMAIN positions
               THEN IF read_id \in DOMAIN corrected
                      THEN [corrected EXCEPT ![read_id] = barcode]
                      ELSE corrected @@ (read_id :> barcode)
               ELSE corrected)

RECURSIVE AsDict(_)
\* The dict read id -> barcode that holds the pairs of rds.
AsDict(rds) ==
  IF rds = <<>> THEN << >>
  ELSE AsDict(SubSeq(rds, 1, Len(rds) - 1))
         @@ (ReadId(rds[Len(rds)]) :> ReadSeq(rds[Len(rds)]))

\* BarcodeProcessor.correct_barcodes(barcode_map), barcode_map holding the
\* pairs of rds: without a whitelist the map is returned as it is.
correct_barcodes(gs, r, positions, L, max_hamming_dist, rds) ==
  IF gs = <<>> THEN Returned(AsDict(rds))
  ELSE LET alignments == vecmap_default(r, rds, L)
       IN  IF alignments.pc = "raised" THEN Raised
           ELSE Returned(CorrectedFrom(alignments.mappings, gs, positions, L,
                                       max_hamming_dist, 1, << >>))

RECURSIVE FeaturesFrom(_, _, _, _, _, _)
\* The loop of detect_features over the alignments, from the n-th on.
FeaturesFrom(aligned, positions, L, allow_mismatches, n, read_features) ==
  IF n > Len(aligned) THEN read_features
  ELSE LET pos         == aligned[n][1]
           mismatches  == aligned[n][2]
           read_id     == aligned[n][3]
           feature_pos == BlockStart(pos, L, FeatureSpacer)
       IN  FeaturesFrom(aligned, positions, L, allow_mismatches, n + 1,
             IF mismatches <= allow_mismatches /\ feature_pos \in DOMAIN positions
               THEN AppendAt(read_features, read_id, Plain(positions[feature_pos]))
               ELSE read_features)

\* FeatureBarcodeDetector.detect_features(feature_reads, allow_mismatches).
detect_features(r, positions, L, rds, allow_mismatches) ==
  LET alignments == vecmap_default(r, rds, L)
  IN  IF alignments.pc = "raised" THEN Raised
      ELSE Returned(FeaturesFrom(alignments.mappings, positions, L,
                                 allow_mismatches, 1, << >>))

\* hashtag_counts[sample_name] += 1 on a dict kept in insertion order, as a
\* list of <<sample, count>>.
Bump(counts, sample) ==
  IF \E k \in 1..Len(counts) : counts[k][1] = sample
    THEN [k \in 1..Len(counts) |->
            IF counts[k][1] = sample THEN <<sample, counts[k][2] + 1>> ELSE counts[k]]
    ELSE Append(counts, <<sample, 1>>)

RECURSIVE HashtagCounts(_, _, _, _, _, _)
\* The counting loop of demultiplex_cells over the alignments.
HashtagCounts(aligned, positions, L, cell_barcodes, n, counts) ==
  IF n > Len(aligned) THEN counts
  ELSE LET pos         == aligned[n][1]
           mismatches  == aligned[n][2]
           read_id     == aligned[n][3]
           hashtag_pos == BlockStart(pos, L, HashtagSpacer)
           cell        == cell_barcodes[read_id]
       IN  HashtagCounts(aligned, positions, L, cell_barcodes, n + 1,
             IF /\ mismatches = 0
                /\ read_id \in DOMAIN cell_barcodes
                /\ hashtag_pos \in DOMAIN positions
               THEN [Touch(counts, cell) EXCEPT ![cell] = Bump(@, positions[hashtag_pos])]
               ELSE counts)

\* max(hashtag_counts.items(), key=lambda x: x[1])[0]: the first sample, in
\* insertion order, with the most reads.
MostReads(counts) ==
  LET most == CHOOSE c \in {counts[k][2] : k \in 1..Len(counts)} :
                \A k \in 1..Len(counts) : counts[k][2] <= c
  IN  counts[SetMin({k \in 1..Len(counts) : counts[k][2] = most})][1]

\* HashtagDemultiplexer.demultiplex_cells(hashtag_reads, cell_barcodes).
demultiplex_cells(r, positions, L, rds, cell_barcodes) ==
  LET alignments == vecmap_default(r, rds, L)
      counts     == HashtagCounts(alignments.mappings, positions, L,
                                  cell_barcodes, 1, << >>)
  IN  IF alignments.pc = "raised" THEN Raised
      ELSE Returned([cell \in DOMAIN counts |-> MostReads(counts[cell])])

RECURSIVE BarcodeMap(_)
\* barcode_map of process_read_pairs: read id -> (barcode, umi), for the reads
\* of read1_data that hold both.
BarcodeMap(read1_data) ==
  IF read1_data = <<>> THEN << >>
  ELSE LET rest    == BarcodeMap(SubSeq(read1_data, 1, Len(read1_data) - 1))
           seq     == ReadSeq(read1_data[Len(read1_data)])
           read_id == ReadId(read1_data[Len(read1_data)])
           entry   == <<Slice(seq, 0, DefaultBarcodeLength),
                        Slice(seq, DefaultBarcodeLength,
                              DefaultBarcodeLength + DefaultUmiLength)>>
       IN  IF Len(seq) >= DefaultBarcodeLength + DefaultUmiLength
             THEN IF read_id \in DOMAIN rest
                    THEN [rest EXCEPT ![read_id] = entry]
                    ELSE rest @@ (read_id :> entry)
             ELSE rest

RECURSIVE FixedGuides(_)
\* guide_results without a detector: the first 20 symbols of each read of
\* read2_data that has them.
FixedGuides(read2_data) ==
  IF read2_data = <<>> THEN << >>
  ELSE LET rest    == FixedGuides(SubSeq(read2_data, 1, Len(read2_data) - 1))
           seq     == ReadSeq(read2_data[Len(read2_data)])
           read_id == ReadId(read2_data[Len(read2_data)])
       IN  IF Len(seq) >= FixedGuideLen
             THEN IF read_id \in DOMAIN rest
                    THEN [rest EXCEPT ![read_id] = <<Slice(seq, 0, FixedGuideLen)>>]
                    ELSE rest @@ (read_id :> <<Slice(seq, 0, FixedGuideLen)>>)
             ELSE rest

\* barcode_guide_counts[barcode][guide] += 1
CountGuide(counts, barcode, guide) ==
  LET of_barcode == IF barcode \in DOMAIN counts THEN counts[barcode] ELSE << >>
      bumped     == IF guide \in DOMAIN of_barcode
                      THEN [of_barcode EXCEPT ![guide] = @ + 1]
                      ELSE of_barcode @@ (guide :> 1)
  IN  IF barcode \in DOMAIN counts
        THEN [counts EXCEPT ![barcode] = bumped]
        ELSE counts @@ (barcode :> bumped)

RECURSIVE CountGuides(_, _, _, _)
\* for guide in guides: ... += 1, from the k-th guide of the list on.
CountGuides(counts, barcode, listed, k) ==
  IF k > Len(listed) THEN counts
  ELSE CountGuides(CountGuide(counts, barcode, listed[k]), barcode, listed, k + 1)

RECURSIVE PairCounts(_, _, _, _, _)
\* The loop of process_read_pairs over guide_results.items(), which holds
\* the read ids in the order ids; the UMI of the pair is unpacked and not used.
PairCounts(guide_results, barcode_map, ids, n, counts) ==
  IF n > Len(ids) THEN counts
  ELSE LET read_id == ids[n]
           barcode == barcode_map[read_id][1]
           listed  == guide_results[read_id]
       IN  IF read_id \in DOMAIN barcode_map
             THEN PairCounts(guide_results, barcode_map, ids, n + 1,
                    CountGuides(counts, barcode, listed, 1))
             ELSE PairCounts(guide_results, barcode_map, ids, n + 1, counts)

RECURSIVE IdsOf(_, _)
\* The read ids of rds, each once, that are keys of the dict d.
IdsOf(rds, d) ==
  IF rds = <<>> THEN <<>>
  ELSE LET rest == IdsOf(SubSeq(rds, 1, Len(rds) - 1), d)
           id   == ReadId(rds[Len(rds)])
       IN  IF id \in DOMAIN d /\ id \notin Range(rest) THEN Append(rest, id) ELSE rest

\* BarcodeGuideMatcher.process_read_pairs(read1_data, read2_data), with the
\* guide detector of the matcher or, when it has none, the fixed position.
process_read_pairs(detector, r, positions, L, read1_data, read2_data) ==
  LET barcode_map == BarcodeMap(read1_data)
      detected    == IF detector
                       THEN detect_guides(r, positions, L, read2_data, TRUE)
                       ELSE Returned(FixedGuides(read2_data))
  IN  IF detected.pc = "raised" THEN Raised
      ELSE Returned(PairCounts(detected.value, barcode_map,
                               IdsOf(read2_data, detected.value), 1, << >>))

\* ------------------------------------------ the application classes at work
\* g with its p-th symbol replaced by c.
Substituted(g, p, c) == [g EXCEPT ![p] = c]

\* The reads drawn for a target g of a reference with spacers of S symbols:
\* g itself, its reverse complement, the windows of g and its spacer shifted by
\* 1..MaxShift, g with its first or last symbol replaced, and g with one more
\* symbol.
NearReads(g, S) ==
  {g, reverse_complement(g), Append(g, g[1])}
    \cup {Slice(g \o Spacer(S), s, s + Len(g)) : s \in 1..MaxShift}
    \cup UNION {{Substituted(g, p, c) : c \in (Alphabet \cup {Filler}) \ {g[p]}} :
                   p \in {1, Len(g)}}

ReadFamily(gs, S) == UNION {NearReads(gs[n], S) : n \in 1..Len(gs)}

Classes ==
  {"CRISPRGuideDetector", "BarcodeGuideMatcher", "BarcodeProcessor",
   "HashtagDemultiplexer", "FeatureBarcodeDetector"}

\* The spacer each class puts after a target; a BarcodeGuideMatcher without
\* a guide detector has no reference.
SpacerOf(class) ==
  CASE class = "CRISPRGuideDetector" -> GuideSpacer
    [] class = "BarcodeProcessor" -> BarcodeSpacer
    [] class = "HashtagDemultiplexer" -> HashtagSpacer
    [] class = "FeatureBarcodeDetector" -> FeatureSpacer
    [] OTHER -> 0

\* An object of one of the classes, constructed from a library of targets of
\* one length: its reference and its registered positions are built.
InitApps ==
  /\ pc \in Classes
  /\ read_len \in TargetLengths
  /\ guides \in CASE pc = "BarcodeProcessor" -> Whitelists(read_len)
                  [] pc = "BarcodeGuideMatcher" -> {<<>>}
                  [] OTHER -> Libraries(read_len)
  /\ spacer_len = SpacerOf(pc)
  /\ ref = GuideRef(guides, spacer_len)
  /\ guide_positions = GuidePositions(guides, read_len, spacer_len)
  /\ seed_len = DefaultSeedLen
  /\ seed_offsets = DefaultOffsets(DefaultSeedLen)
  /\ reads = <<>>
  /\ index = << >>
  /\ i = 0
  /\ candidate_list = <<>>
  /\ mismatches_arr = <<>>
  /\ mappings = <<>>
  /\ FirstCall
  /\ NoWorkers
  /\ GivenReference
  /\ NoWrapper

\* What a method call leaves: its arguments and how it ended.
Called(method, rds, a, res) ==
  /\ pc' = method
  /\ reads' = rds
  /\ args' = a
  /\ results' = res
  /\ UNCHANGED <<ref, read_len, seed_len, seed_offsets, index, i, candidate_list,
                 mismatches_arr, mappings, guides, guide_positions, spacer_len,
                 calls, first, owner, local, length>>

\* detector.detect_guides(reads, allow_reverse_complement) on one read.
DetectGuides ==
  /\ pc = "CRISPRGuideDetector"
  /\ \E seq \in ReadFamily(guides, spacer_len) : \E allow \in BOOLEAN :
       LET rds == <<<<seq, "r1">>>>
       IN  Called("detect_guides", rds, [allow_reverse_complement |-> allow],
                  detect_guides(ref, guide_positions, read_len, rds, allow))

\* The contexts drawn: up to MaxContextLen symbols before the guide, up to
\* one after it.
UpstreamContexts == {[m \in 1..n |-> "G"] : n \in 0..MaxContextLen}

DownstreamContexts == {<<>>, <<"T">>}

\* detector.detect_guides_with_context(reads, upstream_context,
\* downstream_context) on one read: a guide in its context, or the same with
\* its first symbol dropped and one filler symbol added.
DetectGuidesWithContext ==
  /\ pc = "CRISPRGuideDetector"
  /\ \E up \in UpstreamContexts : \E down \in DownstreamContexts :
     \E g \in Range(guides) : \E s \in 0..MaxShift :
       LET full == up \o g \o down
           rds  == <<<<Slice(full \o Spacer(GuideSpacer), s, s + Len(full)), "r1">>>>
       IN  Called("detect_guides_with_context", rds,
                  [upstream_context |-> up, downstream_context |-> down],
                  detect_guides_with_context(guides, read_len, rds, up, down))

\* processor.correct_barcodes(barcode_map) on one extracted barcode, for a
\* processor constructed with max_hamming_dist.
CorrectBarcodes ==
  /\ pc = "BarcodeProcessor"
  /\ \E seq \in ReadFamily(guides, spacer_len) \cup TargetPool(read_len) :
     \E max_hamming_dist \in 0..MaxMismatches :
       LET rds == <<<<seq, "r1">>>>
       IN  Called("correct_barcodes", rds, [max_hamming_dist |-> max_hamming_dist],
                  correct_barcodes(guides, ref, guide_positions, read_len,
                                   max_hamming_dist, rds))

\* detector.detect_features(feature_reads, allow_mismatches) on one read.
DetectFeatures ==
  /\ pc = "FeatureBarcodeDetector"
  /\ \E seq \in ReadFamily(guides, spacer_len) :
     \E allow_mismatches \in 0..MaxMismatches :
       LET rds == <<<<seq, "r1">>>>
       IN  Called("detect_features", rds, [allow_mismatches |-> allow_mismatches],
                  detect_features(ref, guide_positions, read_len, rds,
                                  allow_mismatches))

\* The hashtag reads drawn: a hashtag, the first hashtag without its first
\* symbol and with one filler symbol, or the first hashtag with its first
\* symbol replaced.
HashtagReads ==
  Range(guides)
    \cup {Slice(guides[1] \o Spacer(spacer_len), 1, 1 + read_len),
          Substituted(guides[1], 1, Filler)}

\* The dicts read id -> cell barcode drawn.
CellBarcodes ==
  {<< >>, ("r1" :> "cell1"), ("r1" :> "cell1" @@ "r2" :> "cell1"),
   ("r1" :> "cell1" @@ "r2" :> "cell2")}

\* demultiplexer.demultiplex_cells(hashtag_reads, cell_barcodes) on one or
\* two reads.
DemultiplexCells ==
  /\ pc = "HashtagDemultiplexer"
  /\ \E m \in 1..MaxReads : \E seqs \in [1..m -> HashtagReads] :
     \E cell_barcodes \in CellBarcodes :
       LET rds == [n \in 1..m |-> <<seqs[n], IF n = 1 THEN "r1" ELSE "r2">>]
       IN  Called("demultiplex_cells", rds, [cell_barcodes |-> cell_barcodes],
                  demultiplex_cells(ref, guide_positions, read_len, rds,
                                    cell_barcodes))

\* The reads of Read 1 drawn: a barcode followed by a UMI, or a barcode alone.
Read1Seqs ==
  {Cycle(<<b>>, DefaultBarcodeLength) \o Cycle(<<u>>, DefaultUmiLength) :
     b \in Alphabet, u \in Alphabet}
    \cup {Cycle(<<"A">>, DefaultBarcodeLength)}

\* The reads of Read 2 drawn: a guide of the library, or a sequence of the
\* length of the guides.
Read2Seqs == Range(guides) \cup {Cycle(<<"A">>, read_len)}

\* matcher.process_read_pairs(read1_data, read2_data) on two read pairs, the
\* matcher holding the guide detector or none.
ProcessReadPairs ==
  /\ pc \in {"CRISPRGuideDetector", "BarcodeGuideMatcher"}
  /\ \E s1 \in {Cycle(<<"A">>, DefaultBarcodeLength + DefaultUmiLength),
                Cycle(<<"A">>, DefaultBarcodeLength)} :
     \E s2 \in Read1Seqs : \E g1, g2 \in Read2Seqs :
       LET read1_data == <<<<s1, "r1">>, <<s2, "r2">>>>
           read2_data == <<<<g1, "r1">>, <<g2, "r2">>>>
       IN  Called("process_read_pairs", read2_data, [read1_data |-> read1_data],
                  process_read_pairs(pc = "CRISPRGuideDetector", ref,
                                     guide_positions, read_len,
                                     read1_data, read2_data))

NextApps ==
  \/ DetectGuides
  \/ DetectGuidesWithContext
  \/ CorrectBarcodes
  \/ DetectFeatures
  \/ DemultiplexCells
  \/ ProcessReadPairs

SpecApps == InitApps /\ [][NextApps]_vars

\* ------------------------------------------------- reference definitions
\* What the claims speak of, stated on the reference itself and not through
\* the index or the scorer.

\* The index the machine holds is the dict of seeds and ascending positions.
SeedIndexIsBuilt == pc # "start" => index = SeedIndex(ref, seed_len)

\* r[p : p + L] for a window that lies inside r.
Window(r, p, L) == [n \in 1..L |-> r[p + n]]

RECURSIVE HammingFrom(_, _, _)
\* Position-by-position comparison of two sequences of equal length, from n on.
HammingFrom(a, b, n) ==
  IF n > Len(a) THEN 0
  ELSE (IF a[n] # b[n] THEN 1 ELSE 0) + HammingFrom(a, b, n + 1)

Hamming(a, b) == HammingFrom(a, b, 1)

\* The reference positions where the k symbols of read from offset o occur.
SeedHits(read, o) ==
  {h \in 0..(Len(ref) - seed_len) :
     /\ o + seed_len <= Len(read)
     /\ \A n \in 1..seed_len : ref[h + n] = read[o + n]}

\* { h - o : o in O, h a hit of read[o:o+k], 0 <= h - o <= N - L }
SeedCandidates(read) ==
  {s \in 0..(Len(ref) - read_len) :
     \E o \in Range(seed_offsets) : s + o \in SeedHits(read, o)}

Mapped(m) == m[1] # -1

\* The candidate set vecmap builds for a read, from the index of the state.
BuiltCandidates(read) ==
  candidate_starts(index, read, read_len, seed_len, seed_offsets, Len(ref))

\* --------------------------------------------------------------- claims

\* C1 (as claimed): every call returns, and returns exactly one triple per
\* input read, in input order, the i-th triple carrying the i-th identifier.
C1_OneTriplePerRead ==
  /\ pc # "raised"
  /\ pc = "returned" =>
       /\ Len(mappings) = Len(reads)
       /\ \A j \in 1..Len(reads) : mappings[j][3] = ReadId(reads[j])

\* C2: every result whose position is not the sentinel -1 satisfies
\* 0 <= position <= len(ref) - read_len.
C2_RangeInvariant ==
  \A j \in 1..Len(mappings) :
    Mapped(mappings[j]) =>
      /\ 0 <= mappings[j][1]
      /\ mappings[j][1] <= Len(ref) - read_len

\* C2 witness: a read mapped at the last admissible start of a longer reference.
C2_Witness ==
  /\ Len(mappings) >= 1
  /\ Mapped(mappings[1])
  /\ mappings[1][1] = Len(ref) - read_len
  /\ mappings[1][1] > 0

\* C3: a result is the sentinel pair exactly when the read's candidate set is
\* empty; position = -1 iff mismatches = -1; a non-empty candidate set gives
\* position >= 0 and mismatches >= 0; a read without candidates never raises.
C3_SentinelIffNoCandidates ==
  /\ \A j \in 1..Len(mappings) :
       /\ (mappings[j][1] = -1 /\ mappings[j][2] = -1)
            <=> (BuiltCandidates(ReadSeq(reads[j])) = {})
       /\ (mappings[j][1] = -1) <=> (mappings[j][2] = -1)
       /\ BuiltCandidates(ReadSeq(reads[j])) # {}
            => (mappings[j][1] >= 0 /\ mappings[j][2] >= 0)
  /\ pc = "raised" => BuiltCandidates(ReadSeq(CurRead)) # {}

\* C3 witness: a returned call whose read had no candidate and got the sentinel.
C3_Witness ==
  /\ pc = "returned"
  /\ Len(mappings) = 1
  /\ mappings[1][1] = -1
  /\ Len(ReadSeq(reads[1])) = read_len
  /\ read_len <= Len(ref)

\* C4: the candidate list of the current read is exactly the set
\* { h - o : o in O, h a reference position of read[o:o+k], 0 <= h-o <= N-L },
\* without duplicates and in ascending order.
C4_CandidateSet ==
  pc \in {"candidates", "scored", "raised"} =>
    /\ Range(candidate_list) = SeedCandidates(ReadSeq(CurRead))
    /\ \A n \in 1..(Len(candidate_list) - 1) : candidate_list[n] < candidate_list[n + 1]

\* C4 witness: two offsets propose the same start, and a further start exists.
C4_Witness ==
  /\ pc = "candidates"
  /\ Len(candidate_list) >= 2
  /\ \E s \in Range(candidate_list) :
       \E n1, n2 \in 1..Len(seed_offsets) :
         /\ n1 # n2
         /\ s + seed_offsets[n1] \in SeedHits(ReadSeq(CurRead), seed_offsets[n1])
         /\ s + seed_offsets[n2] \in SeedHits(ReadSeq(CurRead), seed_offsets[n2])

\* C5: for a mapped read of length read_len the returned mismatch count is the
\* Hamming distance between the read and ref[position : position + read_len],
\* and the scorer gives every candidate its Hamming distance to the read.
C5_ScoringCorrect ==
  /\ \A j \in 1..Len(mappings) :
       (Mapped(mappings[j]) /\ Len(ReadSeq(reads[j])) = read_len) =>
         mappings[j][2] = Hamming(ReadSeq(reads[j]), Window(ref, mappings[j][1], read_len))
  /\ (pc = "scored" /\ Len(ReadSeq(CurRead)) = read_len) =>
       \A n \in 1..Len(candidate_list) :
         mismatches_arr[n] = Hamming(ReadSeq(CurRead), Window(ref, candidate_list[n], read_len))

\* C5 witness: a read of length read_len returned with at least one mismatch,
\* chosen among several candidates.
C5_Witness ==
  /\ pc = "returned"
  /\ Len(mappings) = 1
  /\ Len(ReadSeq(reads[1])) = read_len
  /\ mappings[1][2] >= 1
  /\ Len(candidate_list) >= 2

\* C6: for a read with a non-empty candidate set the returned position is a
\* candidate, its mismatch count is the minimum over all candidates, and no
\* candidate with that minimum starts lower.
C6_Selection ==
  \A j \in 1..Len(mappings) :
    LET read  == ReadSeq(reads[j])
        cands == SeedCandidates(read)
        pos   == mappings[j][1]
        mm    == mappings[j][2]
    IN  cands # {} =>
          /\ pos \in cands
          /\ mm = RowMismatches(ref, read, pos, read_len)
          /\ \A c \in cands :
               /\ RowMismatches(ref, read, c, read_len) >= mm
               /\ RowMismatches(ref, read, c, read_len) = mm => c >= pos

\* C6 witness: the chosen candidate follows a worse one and ties with a later one.
C6_Witness ==
  /\ Len(mappings) = 1
  /\ Mapped(mappings[1])
  /\ \E c1, c2 \in SeedCandidates(ReadSeq(reads[1])) :
       /\ c1 < mappings[1][1]
       /\ RowMismatches(ref, ReadSeq(reads[1]), c1, read_len) > mappings[1][2]
       /\ c2 > mappings[1][1]
       /\ RowMismatches(ref, ReadSeq(reads[1]), c2, read_len) = mappings[1][2]

\* C7: once built, the index has exactly the seed_len-length substrings of the
\* reference as keys; each key holds, strictly ascending, all and only its
\* start positions; every stored position lies in 0..N-k; each of the N-k+1
\* start positions is stored exactly once; the index is empty when k > N.
C7_SeedIndex ==
  pc # "start" =>
    LET N   == Len(ref)
        k   == seed_len
        pos == 0..(N - k)
    IN  /\ DOMAIN index = {Window(ref, p, k) : p \in pos}
        /\ \A key \in DOMAIN index :
             /\ Range(index[key]) = {p \in pos : Window(ref, p, k) = key}
             /\ \A n \in 1..(Len(index[key]) - 1) : index[key][n] < index[key][n + 1]
             /\ \A n \in 1..Len(index[key]) : 0 <= index[key][n] /\ index[key][n] <= N - k
        /\ \A p \in pos :
             Cardinality({kn \in UNION {{<<key, n>> : n \in 1..Len(index[key])} : key \in DOMAIN index} :
                            index[kn[1]][kn[2]] = p}) = 1
        /\ k > N => DOMAIN index = {}

\* C7 witness: an index with several keys, one of them occurring more than once.
C7_Witness ==
  /\ pc # "start"
  /\ Cardinality(DOMAIN index) >= 2
  /\ \E key \in DOMAIN index : Len(index[key]) >= 2

\* The lowest reference position at which read occurs as a whole window.
LowestOccurrence(read) ==
  SetMin({q \in 0..(Len(ref) - Len(read)) : Window(ref, q, Len(read)) = read})

\* The configuration C8 assumes: k <= L <= N and every offset in 0..L-k.
C8_Config ==
  /\ seed_len <= read_len
  /\ read_len <= Len(ref)
  /\ \A o \in Range(seed_offsets) : o <= read_len - seed_len

IsWindow(read) ==
  /\ Len(read) = read_len
  /\ \E p \in 0..(Len(ref) - read_len) : read = Window(ref, p, read_len)

\* C8 (as claimed): under k <= L <= N and offsets in 0..L-k, a read equal to
\* ref[p : p+L] is returned as (p', 0, id), p' its lowest occurrence.
C8_ExactSelfMatch ==
  \A j \in 1..Len(reads) :
    (C8_Config /\ IsWindow(ReadSeq(reads[j]))) =>
      /\ ~(pc = "raised" /\ i + 1 = j)
      /\ j <= Len(mappings) =>
           mappings[j] = <<LowestOccurrence(ReadSeq(reads[j])), 0, ReadId(reads[j])>>

\* C8 (amended): the same, for a configuration with at least one seed offset.
C8_ExactSelfMatchSeeded ==
  \A j \in 1..Len(reads) :
    (C8_Config /\ Len(seed_offsets) >= 1 /\ IsWindow(ReadSeq(reads[j]))) =>
      /\ ~(pc = "raised" /\ i + 1 = j)
      /\ j <= Len(mappings) =>
           mappings[j] = <<LowestOccurrence(ReadSeq(reads[j])), 0, ReadId(reads[j])>>

\* C8 witness: a read that recurs in the reference is returned at its lowest
\* occurrence.
C8_Witness ==
  /\ pc = "returned"
  /\ C8_Config
  /\ Len(seed_offsets) >= 1
  /\ Len(mappings) = 1
  /\ IsWindow(ReadSeq(reads[1]))
  /\ \E p \in 0..(Len(ref) - read_len) :
       /\ p > mappings[1][1]
       /\ ReadSeq(reads[1]) = Window(ref, p, read_len)

\* C9: a read none of whose probed seeds occurs at an in-range start is
\* reported as (-1, -1, id) and never raises; no returned position is one that
\* no seed proposes.
C9_SeedMissUnmapped ==
  /\ \A j \in 1..Len(mappings) :
       /\ SeedCandidates(ReadSeq(reads[j])) = {}
            => mappings[j] = <<-1, -1, ReadId(reads[j])>>
       /\ Mapped(mappings[j]) => mappings[j][1] \in SeedCandidates(ReadSeq(reads[j]))
  /\ pc = "raised" => SeedCandidates(ReadSeq(CurRead)) # {}

\* C9 witness: an unmapped read although a reference window is one
\* substitution away from it.
C9_Witness ==
  /\ pc = "returned"
  /\ Len(mappings) = 1
  /\ mappings[1] = <<-1, -1, ReadId(reads[1])>>
  /\ Len(seed_offsets) >= 1
  /\ Len(ReadSeq(reads[1])) = read_len
  /\ \E p \in 0..(Len(ref) - read_len) :
       Hamming(ReadSeq(reads[1]), Window(ref, p, read_len)) = 1

\* read is ref[p : p+L] with exactly one substituted symbol, at an index that
\* lies outside every probed seed window [o, o+k).
OneSubstitutionOutsideSeeds(read, p) ==
  /\ Len(read) = read_len
  /\ \E x \in 0..(read_len - 1) :
       /\ read[x + 1] # ref[p + x + 1]
       /\ \A y \in 0..(read_len - 1) : y # x => read[y + 1] = ref[p + y + 1]
       /\ \A o \in Range(seed_offsets) : ~(o <= x /\ x < o + seed_len)

\* C10 (as claimed): such a read is mapped to position p with 1 mismatch.
C10_SingleSubstitution ==
  \A j \in 1..Len(mappings) : \A p \in 0..(Len(ref) - read_len) :
    OneSubstitutionOutsideSeeds(ReadSeq(reads[j]), p) =>
      mappings[j] = <<p, 1, ReadId(reads[j])>>

\* A candidate start that the selector prefers to p for a read one
\* substitution away from ref[p : p+L].
PreferredTo(read, p, q) ==
  /\ q \in SeedCandidates(read)
  /\ \/ Hamming(read, Window(ref, q, read_len)) = 0
     \/ Hamming(read, Window(ref, q, read_len)) = 1 /\ q < p

\* C10 (amended): when some offset probes a whole seed (o + k <= L), such a
\* read never raises and is mapped with at most 1 mismatch: to (p, 1) unless
\* another candidate matches exactly or has 1 mismatch at a lower start, and
\* then to the lowest candidate with the fewest mismatches.
C10_SingleSubstitutionBest ==
  \A j \in 1..Len(reads) : \A p \in 0..(Len(ref) - read_len) :
    LET read == ReadSeq(reads[j])
    IN  (OneSubstitutionOutsideSeeds(read, p)
           /\ \E o \in Range(seed_offsets) : o + seed_len <= read_len) =>
          /\ ~(pc = "raised" /\ i + 1 = j)
          /\ j <= Len(mappings) =>
               /\ Mapped(mappings[j])
               /\ mappings[j][2] \in {0, 1}
               /\ mappings[j][2] = Hamming(read, Window(ref, mappings[j][1], read_len))
               /\ mappings[j][2] = 1 => mappings[j][1] <= p
               /\ (mappings[j] = <<p, 1, ReadId(reads[j])>>)
                    <=> ~(\E q \in SeedCandidates(read) : PreferredTo(read, p, q))

\* C10 witness: a substituted read returned at its true position with 1
\* mismatch although the seed proposed another start as well.
C10_Witness ==
  /\ pc = "returned"
  /\ Len(mappings) = 1
  /\ \E p \in 0..(Len(ref) - read_len) :
       /\ OneSubstitutionOutsideSeeds(ReadSeq(reads[1]), p)
       /\ mappings[1] = <<p, 1, ReadId(reads[1])>>
  /\ Len(candidate_list) >= 2

\* The 0-based indices of the targets whose sequence is read.
TargetsEqualTo(read) == {n - 1 : n \in {m \in 1..Len(guides) : guides[m] = read}}

\* C11 (as claimed): a read equal to target i is returned at i * (T + S) with
\* 0 mismatches, and position // (T + S) recovers target i.
C11_RoundTrip ==
  /\ \A j \in 1..Len(mappings) : \A t \in TargetsEqualTo(ReadSeq(reads[j])) :
       /\ mappings[j][1] = t * (read_len + spacer_len)
       /\ mappings[j][2] = 0
       /\ mappings[j][1] \div (read_len + spacer_len) = t
       /\ DetectedGuide(mappings[j][1]) = t
  /\ pc = "raised" => TargetsEqualTo(ReadSeq(CurRead)) = {}

\* C11 (amended): a read equal to some target is returned with 0 mismatches at
\* the offset of the first target with that sequence, which the division
\* recovers; that is target i itself when no earlier target repeats it.
C11_RoundTripFirst ==
  /\ \A j \in 1..Len(mappings) :
       LET same == TargetsEqualTo(ReadSeq(reads[j]))
       IN  same # {} =>
             /\ mappings[j][1] = SetMin(same) * (read_len + spacer_len)
             /\ mappings[j][2] = 0
             /\ mappings[j][1] \div (read_len + spacer_len) = SetMin(same)
             /\ DetectedGuide(mappings[j][1]) = SetMin(same)
  /\ pc = "raised" => TargetsEqualTo(ReadSeq(CurRead)) = {}

\* C11 witness: the second of two different targets is queried and found at
\* its registered offset.
C11_Witness ==
  /\ pc = "returned"
  /\ Len(guides) >= 2
  /\ guides[1] # guides[2]
  /\ ReadSeq(reads[1]) = guides[2]
  /\ mappings[1] = <<read_len + spacer_len, 0, "r1">>
  /\ DetectedGuide(mappings[1][1]) = 1

\* C12: vecmap_numba ends as vecmap does, with the same sequence of triples
\* (same tie-break, same sentinel), and the two index builders give the same
\* mapping from k-mers to position lists.
C12_BackendEquivalence ==
  /\ pc # "start" => index = build_seed_index_nb(ref, seed_len)
  /\ pc = "returned" =>
       vecmap_numba(ref, reads, read_len, seed_len, seed_offsets)
         = [pc |-> "returned", mappings |-> mappings]
  /\ pc = "raised" =>
       vecmap_numba(ref, reads, read_len, seed_len, seed_offsets).pc = "raised"

\* C12 witness: a returned read with tied best candidates, whose start list in
\* the compiled backend holds repeats.
C12_Witness ==
  /\ pc = "returned"
  /\ Len(mappings) = 1
  /\ Mapped(mappings[1])
  /\ Len(candidate_list) >= 2
  /\ Cardinality({n \in 1..Len(mismatches_arr) : mismatches_arr[n] = mappings[1][2]}) >= 2
  /\ Len(get_candidate_starts_nb(index, ReadSeq(reads[1]), read_len,
                                 seed_offsets, seed_len, Len(ref)))
       > Len(candidate_list)

\* The configurations the contract excludes: seed_len > read_len, or
\* read_len > len(ref), or an empty reference with a nonzero read length.
ConfigError ==
  \/ seed_len > read_len
  \/ read_len > Len(ref)
  \/ (Len(ref) = 0 /\ read_len # 0)

\* C13 (as claimed): under a configuration error the call aborts with an
\* error before any read is processed and produces no per-read result.
C13_ConfigErrorsFailFast ==
  ConfigError =>
    /\ pc \notin {"candidates", "scored", "returned"}
    /\ i = 0
    /\ mappings = <<>>

\* C14 (as claimed): a read whose length differs from read_len gets its own
\* record, unmapped, and never aborts the batch: the call does not raise and
\* every other read keeps its result.
C14_MalformedReadRejected ==
  /\ pc # "raised"
  /\ \A j \in 1..Len(mappings) :
       Len(ReadSeq(reads[j])) # read_len => mappings[j] = <<-1, -1, ReadId(reads[j])>>
  /\ pc = "returned" => Len(mappings) = Len(reads)

\* One step of a call leaves the reference and the offsets list as they
\* were, and between the build and the end of the call the index as well.
FrameStep ==
  /\ ref' = ref
  /\ seed_offsets' = seed_offsets
  /\ pc \in {"loop", "candidates", "scored"} => index' = index

\* The outcome of a finished later call is the outcome of the first call.
LaterCallSame ==
  (calls >= 1 /\ pc \in {"returned", "raised"}) =>
    [pc |-> pc, mappings |-> mappings] = first

\* C15: once the index is built, processing the reads leaves the reference,
\* the index (no entry appears for a seed that is looked up but absent) and
\* the offsets list unchanged, and a later call with the same arguments
\* returns what the first call returned.
C15_Frame == [][FrameStep]_vars /\ []LaterCallSame

\* A later call has returned after two reads, one of which probed a seed
\* that the index does not hold.
C15_Witness ==
  /\ calls >= 1
  /\ pc = "returned"
  /\ Len(mappings) >= 2
  /\ first.pc = "returned"
  /\ DOMAIN index # {}
  /\ \E j \in 1..Len(reads) : \E n \in 1..Len(seed_offsets) :
       Slice(ReadSeq(reads[j]), seed_offsets[n], seed_offsets[n] + seed_len)
         \notin DOMAIN index

\* C16: with the batch split over workers that share ref and index without
\* locks, in every interleaving of the workers' per-read steps the shared
\* index stays what the build made it, every result a worker has produced is
\* the outcome of mapping that read alone, a worker raises only on a read
\* that raises alone, and a worker that returns has a result for each read
\* of its chunk.
C16_WorkersIndependent ==
  pc = "loop" =>
    /\ index = build_seed_index(ref, seed_len)
    /\ \A w \in DOMAIN local :
         /\ Len(local[w].mappings) = local[w].i
         /\ \A j \in 1..Len(local[w].mappings) :
              local[w].mappings[j] = MapAlone(Chunk(w)[j])
         /\ local[w].pc = "raised" => MapAlone(WRead(w)) = "raised"
         /\ local[w].pc = "returned" => Len(local[w].mappings) = Len(Chunk(w))

\* Two workers are both in the middle of a read, one between scoring and
\* selection, the other between candidate generation and scoring, and a
\* third read is already mapped.
C16_Witness ==
  /\ pc = "loop"
  /\ \E w1, w2 \in DOMAIN local :
       /\ w1 # w2
       /\ local[w1].pc = "scored"
       /\ local[w2].pc = "candidates"
       /\ Len(local[w2].candidate_list) > 0
       /\ Len(local[w1].candidate_list) > 1
       /\ ReadSeq(WRead(w1)) # ReadSeq(WRead(w2))

\* C17: a second run of vecmap on the same reference, reads, read_len,
\* seed_len and seed_offsets produces the output of the first run, triple by
\* triple (the position chosen among tying candidates included), and ends as
\* the first run ended.
C17_Determinism ==
  calls >= 1 =>
    /\ Len(mappings) <= Len(first.mappings)
    /\ \A j \in 1..Len(mappings) : mappings[j] = first.mappings[j]
    /\ pc = "returned" => (first.pc = "returned" /\ mappings = first.mappings)
    /\ pc = "raised" => first.pc = "raised"

\* The second run has returned, and its last read was mapped to one of two
\* candidates that tie for the minimum mismatch count.
C17_Witness ==
  /\ calls >= 1
  /\ pc = "returned"
  /\ Len(mappings) >= 1
  /\ mappings[Len(mappings)][1] >= 0
  /\ \E a, b \in 1..Len(mismatches_arr) :
       /\ a # b
       /\ mismatches_arr[a] = ArrMin(mismatches_arr)
       /\ mismatches_arr[b] = ArrMin(mismatches_arr)

\* The aligned positions of the window at start p where the reference holds
\* the filler symbol.
FillerPositions(p) == {n \in 1..read_len : RefAt(ref, p + n - 1) = Filler}

\* C18 (as claimed): the scorer counts a mismatch at every aligned position
\* where the reference holds the filler symbol, whatever the read holds there,
\* so no read is reported with 0 mismatches at a window that overlaps a spacer.
C18_FillerNeverMatches ==
  /\ pc = "scored" =>
       \A a \in 1..Len(candidate_list) :
         mismatches_arr[a] >= Cardinality(FillerPositions(candidate_list[a]))
  /\ \A j \in 1..Len(mappings) :
       (mappings[j][1] >= 0 /\ mappings[j][2] = 0) =>
         FillerPositions(mappings[j][1]) = {}

\* The positions p at which the read is the window ref[p : p + read_len].
ExactAt(read) ==
  {p \in 0..(Len(ref) - read_len) : Slice(ref, p, p + read_len) = read}

\* The in-range starts one or more periods away from p.
RepeatOccurrences(p) ==
  {q \in 0..(Len(ref) - read_len) : q % Period = p % Period}

\* C19: on a reference that repeats a unit of Period symbols, a read equal
\* to ref[p : p + L] with L a multiple of the period and k <= L has every
\* in-range start congruent to p modulo the period among its candidates, is
\* scored without an error and is returned at a window equal to it, with 0
\* mismatches.
C19_RepetitiveReference ==
  /\ pc \in {"candidates", "scored"} =>
       \A p \in ExactAt(ReadSeq(CurRead)) :
         RepeatOccurrences(p) \subseteq Range(candidate_list)
  /\ (pc = "candidates" /\ Len(candidate_list) > 0) =>
       /\ GatherOk(ref, candidate_list, read_len)
       /\ Broadcastable(read_len, Len(ReadSeq(CurRead)))
  /\ \A j \in 1..Len(mappings) :
       ExactAt(ReadSeq(reads[j])) # {} =>
         /\ mappings[j][2] = 0
         /\ mappings[j][1] \in ExactAt(ReadSeq(reads[j]))

\* An exact read of a reference of three periods whose unit is not itself
\* periodic has been returned: its candidates were the three occurrences.
C19_Witness ==
  /\ pc = "returned"
  /\ Len(ref) = 3 * Period
  /\ read_len = Period
  /\ ReadSeq(reads[1]) = Slice(ref, 0, read_len)
  /\ candidate_list = <<0, Period, 2 * Period>>
  /\ mappings = <<<<0, 0, ReadId(reads[1])>>>>

\* C20 (as claimed): generate_reference(length) has exactly length symbols.
C20_ReferenceLength ==
  pc = "generated" => Len(ref) = length

\* One step of a call in the order of the phases: build, then per read
\* candidate generation, scoring (only with candidates), selection and append.
PhaseStep ==
  \/ /\ pc = "start" /\ pc' = "loop"
     /\ i' = 0 /\ mappings' = <<>>
  \/ /\ pc = "loop" /\ pc' = "candidates"
     /\ i < Len(reads) /\ Len(mappings) = i
     /\ index' = index /\ i' = i /\ mappings' = mappings
  \/ /\ pc = "candidates" /\ pc' = "scored"
     /\ Len(candidate_list) > 0
     /\ index' = index /\ i' = i /\ mappings' = mappings
     /\ candidate_list' = candidate_list
  \/ /\ pc = "candidates" /\ pc' = "raised"
     /\ Len(candidate_list) > 0
     /\ index' = index /\ i' = i /\ mappings' = mappings
  \/ /\ pc = "candidates" /\ pc' = "loop"
     /\ Len(candidate_list) = 0
     /\ index' = index /\ i' = i + 1
     /\ Len(mappings') = i + 1
     /\ SubSeq(mappings', 1, i) = mappings
     /\ mappings'[i + 1][3] = ReadId(reads[i + 1])
  \/ /\ pc = "scored" /\ pc' = "loop"
     /\ index' = index /\ i' = i + 1
     /\ Len(mappings') = i + 1
     /\ SubSeq(mappings', 1, i) = mappings
     /\ mappings'[i + 1][3] = ReadId(reads[i + 1])
  \/ /\ pc = "loop" /\ pc' = "returned"
     /\ i = Len(reads)
     /\ index' = index /\ mappings' = mappings

\* Between the steps: nothing is processed before the build, the results so
\* far are those of the reads before the current one, and the index is the
\* one index of the reference.
PhaseState ==
  /\ pc = "start" => (index = << >> /\ i = 0 /\ mappings = <<>> /\ candidate_list = <<>>)
  /\ pc # "start" => index = build_seed_index(ref, seed_len)
  /\ pc \in {"loop", "candidates", "scored", "raised", "returned"} => Len(mappings) = i
  /\ pc \in {"candidates", "scored", "raised"} => i < Len(reads)

\* C24: the index is built once, before the first read; each read in input
\* order has its candidates generated, is scored only when it has candidates,
\* and has its result appended before the candidates of the next read are
\* generated; the index is never rebuilt during the batch.
C24_PhaseOrdering == [][PhaseStep]_vars /\ []PhaseState

\* Two reads went through the phases, the first with candidates, the second
\* without.
C24_Witness ==
  /\ pc = "returned"
  /\ Len(mappings) = 2
  /\ mappings[1][1] >= 0
  /\ mappings[2][1] = -1
  /\ DOMAIN index # {}

\* C28: a mapped result of a read of read_len symbols has a configured
\* offset o with o + k <= L at which the seed of the read is the reference at
\* the reported position; so 0 <= mismatches <= L - k, and 0 when L = k.
C28_SeedSupported ==
  \A j \in 1..Len(mappings) :
    (Len(ReadSeq(reads[j])) = read_len /\ Mapped(mappings[j])) =>
      /\ \E o \in Range(seed_offsets) :
           /\ o + seed_len <= read_len
           /\ mappings[j][1] >= 0
           /\ mappings[j][1] + o + seed_len <= Len(ref)
           /\ \A n \in 1..seed_len :
                ReadSeq(reads[j])[o + n] = ref[mappings[j][1] + o + n]
      /\ 0 <= mappings[j][2]
      /\ mappings[j][2] <= read_len - seed_len
      /\ read_len = seed_len => mappings[j][2] = 0

\* A read mapped with as many mismatches as the seed leaves room for, and
\* more than none.
C28_Witness ==
  /\ pc = "returned"
  /\ Len(ReadSeq(reads[1])) = read_len
  /\ Mapped(mappings[1])
  /\ mappings[1][2] = read_len - seed_len
  /\ mappings[1][2] > 0

\* The configured offsets whose seed lies inside the read.
FittingOffsets(read) ==
  SelectSeq(seed_offsets, LAMBDA o : o + seed_len <= Len(read))

\* C30: an offset o with o + seed_len > len(read) contributes no candidate,
\* and the call ends as it ends with only the offsets that fit.
C30_TruncatedSeeds ==
  /\ pc \in {"candidates", "scored", "raised"} =>
       Range(candidate_list) =
         {s \in 0..(Len(ref) - read_len) :
            \E o \in Range(FittingOffsets(ReadSeq(CurRead))) :
              /\ s + o + seed_len <= Len(ref)
              /\ \A n \in 1..seed_len : ref[s + o + n] = ReadSeq(CurRead)[o + n]}
  /\ \A j \in 1..Len(mappings) :
       mappings[j] = MapRead(ref, build_seed_index(ref, seed_len), reads[j],
                             read_len, seed_len, FittingOffsets(ReadSeq(reads[j])))
  /\ pc = "raised" =>
       MapRead(ref, build_seed_index(ref, seed_len), CurRead,
               read_len, seed_len, FittingOffsets(ReadSeq(CurRead))) = "raised"

\* A read mapped through its first offset while its second offset reaches
\* past the end of the read.
C30_Witness ==
  /\ pc = "returned"
  /\ Len(ReadSeq(reads[1])) = read_len
  /\ Mapped(mappings[1])
  /\ Len(seed_offsets) = 2
  /\ Len(FittingOffsets(ReadSeq(reads[1]))) = 1
  /\ seed_offsets[2] < read_len

\* The names the returned dict lists for the read id, none when the call
\* raised or the dict has no entry for it.
NamesOf(id) ==
  IF results.pc = "raised" THEN {}
  ELSE IF id \in DOMAIN results.value THEN Range(results.value[id]) ELSE {}

\* C21 (as claimed): after detect_guides on a library the constructor
\* accepted, a read whose sequence equals the sequence of the library guide
\* named j is listed with the name j.
C21_DetectGuidesRoundTrip ==
  pc = "detect_guides" =>
    \A n \in 1..Len(reads) : \A j \in 1..Len(guides) :
      ReadSeq(reads[n]) = guides[j] => Plain(j - 1) \in NamesOf(ReadId(reads[n]))

\* C22 (as claimed): after detect_guides_with_context, for every upstream and
\* downstream context, a read equal to upstream_context + guide + 
\* downstream_context for the library guide named j is listed with the name j.
C22_GuidesInContext ==
  pc = "detect_guides_with_context" =>
    \A n \in 1..Len(reads) : \A j \in 1..Len(guides) :
      ReadSeq(reads[n]) = args.upstream_context \o guides[j] \o args.downstream_context
        => Plain(j - 1) \in NamesOf(ReadId(reads[n]))

\* C23 (as claimed): after correct_barcodes, a read whose extracted barcode,
\* of barcode_length symbols, is a member of the whitelist is mapped to that
\* same barcode.
C23_ExactWhitelistMatch ==
  pc = "correct_barcodes" =>
    \A n \in 1..Len(reads) :
      (Len(ReadSeq(reads[n])) = read_len /\ ReadSeq(reads[n]) \in Range(guides)) =>
        /\ results.pc = "returned"
        /\ ReadId(reads[n]) \in DOMAIN results.value
        /\ results.value[ReadId(reads[n])] = ReadSeq(reads[n])

\* C25 (as claimed): after detect_guides, a read of guide_length symbols is
\* listed with the name j only if its sequence equals the sequence of the
\* guide named j, and with the name j + "_RC" only if its reverse complement
\* does; so a read that differs, with its reverse complement, from every guide
\* receives no name.
C25_ExactOnlyAssignment ==
  pc = "detect_guides" =>
    \A n \in 1..Len(reads) : \A j \in 1..Len(guides) :
      Len(ReadSeq(reads[n])) = read_len =>
        /\ Plain(j - 1) \in NamesOf(ReadId(reads[n])) => ReadSeq(reads[n]) = guides[j]
        /\ RCName(j - 1) \in NamesOf(ReadId(reads[n])) =>
             reverse_complement(ReadSeq(reads[n])) = guides[j]

\* C26 (as claimed): after detect_features with allow_mismatches = m, a read
\* of the barcode length is attributed to the feature named j only if the
\* Hamming distance between the read and the barcode of j is at most m.
C26_FeatureWithinDistance ==
  pc = "detect_features" =>
    \A n \in 1..Len(reads) : \A j \in 1..Len(guides) :
      (/\ Len(ReadSeq(reads[n])) = read_len
       /\ Plain(j - 1) \in NamesOf(ReadId(reads[n])))
        => Hamming(ReadSeq(reads[n]), guides[j]) <= args.allow_mismatches

\* The UMIs of the read pairs whose Read 1 carries the barcode.
UmisOf(barcode) ==
  {Slice(ReadSeq(args.read1_data[n]), DefaultBarcodeLength,
         DefaultBarcodeLength + DefaultUmiLength) :
     n \in {m \in 1..Len(args.read1_data) :
              /\ Len(ReadSeq(args.read1_data[m])) >= DefaultBarcodeLength + DefaultUmiLength
              /\ Slice(ReadSeq(args.read1_data[m]), 0, DefaultBarcodeLength) = barcode}}

\* C27 (as claimed): process_read_pairs counts unique UMIs per guide per
\* barcode: the count returned for a guide under a barcode is a number of
\* distinct UMIs among the read pairs carrying that barcode, so it is at most
\* the number of distinct UMIs those pairs hold, and two read pairs with the
\* same barcode, UMI and guide count once.
C27_UniqueUmiCounts ==
  (pc = "process_read_pairs" /\ results.pc = "returned") =>
    \A barcode \in DOMAIN results.value :
      \A guide \in DOMAIN results.value[barcode] :
        results.value[barcode][guide] <= Cardinality(UmisOf(barcode))

\* vecmap, called as the wrappers call it on the read alone, reports the
\* sentinel (-1, -1) for it.
Sentinel(rd) ==
  LET alone == vecmap_default(ref, <<rd>>, read_len)
  IN  alone.pc = "returned" /\ alone.mappings = <<<<-1, -1, ReadId(rd)>>>>

\* The reads of the batch with the read id.
ReadsOf(id) == {n \in 1..Len(reads) : ReadId(reads[n]) = id}

\* C29: a read for which vecmap reports the sentinel is never attributed to
\* a target: correct_barcodes and detect_features, whose tests on the
\* mismatches the sentinel passes, add no entry for its id; detect_guides
\* lists no name for it, and no "_RC" name when its reverse complement is
\* unmapped; demultiplex_cells assigns a cell only if one of its reads is
\* mapped.
C29_SentinelNeverAttributed ==
  /\ (pc \in {"correct_barcodes", "detect_features"} /\ guides # <<>>) =>
       \A n \in 1..Len(reads) :
         (\A m \in ReadsOf(ReadId(reads[n])) : Sentinel(reads[m])) =>
           ReadId(reads[n]) \notin DOMAIN results.value
  /\ pc = "detect_guides" =>
       \A n \in 1..Len(reads) : \A j \in 1..Len(guides) :
         /\ Sentinel(reads[n]) => Plain(j - 1) \notin NamesOf(ReadId(reads[n]))
         /\ Sentinel(<<reverse_complement(ReadSeq(reads[n])), ReadId(reads[n])>>)
              => RCName(j - 1) \notin NamesOf(ReadId(reads[n]))
  /\ pc = "demultiplex_cells" =>
       \A cell \in DOMAIN results.value :
         \E n \in 1..Len(reads) :
           /\ ReadId(reads[n]) \in DOMAIN args.cell_barcodes
           /\ args.cell_barcodes[ReadId(reads[n])] = cell
           /\ ~Sentinel(reads[n])

\* correct_barcodes has run, with a whitelist, on a barcode that vecmap
\* leaves unmapped; the sentinel passed mismatches <= max_hamming_dist and
\* the returned dict has no entry.
C29_Witness ==
  /\ pc = "correct_barcodes"
  /\ guides # <<>>
  /\ Len(reads) = 1
  /\ Sentinel(reads[1])
  /\ -1 <= args.max_hamming_dist
  /\ BlockStart(-1, read_len, spacer_len) < 0
  /\ results = Returned(<< >>)

====
